---- MODULE Spec2Model ----
(***************************************************************************)
(* Model of psamfinder: find_duplicates (exact and fuzzy mode),            *)
(* delete_duplicates, the `scan` command that drives them, and the         *)
(* cumulative histogram of the `threshold` command.                        *)
(*                                                                         *)
(* Paths are the numbers 1..n in the order os.walk discovers them.         *)
(* Python lists and insertion-ordered dicts are sequences; Python's        *)
(* 0-based list indices are kept 0-based where the code computes on them   *)
(* (parent is a function on 0..n-1; i and j of the loops start at 0).       *)
(* A fingerprint is a 64-bit value drawn from 0..MaxFingerprint, a         *)
(* similarity threshold is given in hundredths.  print_duplicates and the  *)
(* debug listing of fuzzy mode only print and are left out; os.remove      *)
(* fails only on a path that no longer exists.                             *)
(***************************************************************************)
EXTENDS Integers, Sequences, FiniteSets, TLC

\* ---------------------------------------------------------------- bounds
MaxFiles == 4       \* files found by one directory walk
MaxDigest == 2      \* distinct content digests
MaxFingerprint == 3 \* fingerprints are the 64-bit values 0..MaxFingerprint
MaxPairs == 2       \* pairwise distances given to the histogram

\* ------------------------------------------------------------- constants
HashSize == 64      \* bits of a phash fingerprint (8 x 8)

VARIABLES
    cmd,            \* "scan" or "threshold"
    pc,             \* position of the command
    walk,           \* os.walk's file list, in discovery order
    content,        \* path -> what reading the file for SHA-256 gives
    image,          \* path -> what the extension filter and phash give
    fuzzy_images,   \* the --fuzzy-images option
    similarity_threshold,   \* the --similarity-threshold option, in hundredths
    fs,             \* the paths that exist on the filesystem
    dupe_groups,    \* find_duplicates' return value
    stderr,         \* lines written to sys.stderr
    stdout,         \* lines printed by delete_duplicates and by scan around it
    dry_run,        \* the --dry-run option
    idx,            \* delete_duplicates' loop position (1-based)
    any_deleted,    \* delete_duplicates' local any_deleted
    keeps,          \* the inputs read at the keep prompt so far
    returned,       \* delete_duplicates' return value ("none" before)
    distances,      \* threshold: the sorted pairwise distances
    reported        \* threshold: the 8 counts echoed by verbose mode

vars == <<cmd, pc, walk, content, image, fuzzy_images, similarity_threshold, fs, dupe_groups,
          stderr, stdout, dry_run, idx, any_deleted, keeps,
          returned, distances, reported>>

\* ------------------------------------------------------------ sequences
Range(s) == {s[i] : i \in 1..Len(s)}

RECURSIVE SumSeq(_)
SumSeq(s) == IF s = <<>> THEN 0 ELSE Head(s) + SumSeq(Tail(s))

\* a filter that keeps every non-empty list
MoreThanOne_nonempty(paths) == Len(paths) > 0

\* [x for x in s if len(x) > 1]
MoreThanOne(paths) == Len(paths) > 1

RECURSIVE ValuesWithDuplicates(_)
ValuesWithDuplicates(d) ==
    IF d = <<>> THEN <<>>
    ELSE IF MoreThanOne(Head(d).paths)
         THEN <<Head(d).paths>> \o ValuesWithDuplicates(Tail(d))
         ELSE ValuesWithDuplicates(Tail(d))

\* d[key].append(path) on an insertion-ordered dict, creating the entry
\* at the end when the key is new
HasKey(d, key) == \E k \in 1..Len(d) : d[k].key = key

DictAppend(d, key, path) ==
    IF HasKey(d, key)
    THEN [k \in 1..Len(d) |->
            IF d[k].key = key
            THEN [key |-> key, paths |-> Append(d[k].paths, path)]
            ELSE d[k]]
    ELSE Append(d, [key |-> key, paths |-> <<path>>])

\* ------------------------------------------------------- compute_hash
ReadKinds == {"ok", "PermissionError", "FileNotFoundError", "OSError"}

ReadOutcomes ==
    [kind : {"ok"}, digest : 1..MaxDigest]
        \cup [kind : ReadKinds \ {"ok"}, digest : {0}]

\* what compute_hash does with one file: a digest, None with a line on
\* stderr, or an exception it does not catch
Caught(kind) == kind \in {"PermissionError", "FileNotFoundError"}

compute_hash(filepath) ==
    LET r == content[filepath] IN
    IF r.kind = "ok"
    THEN [raised |-> FALSE, hash |-> r.digest, err |-> <<>>]
    ELSE IF Caught(r.kind)
    THEN [raised |-> FALSE, hash |-> 0,
          err |-> <<[msg |-> "Error hashing", path |-> filepath]>>]
    ELSE [raised |-> TRUE, hash |-> 0, err |-> <<>>]

\* --------------------------------------------- find_duplicates, exact
\* a test that lets None through as a key
Hashed_always(file_hash) == TRUE

\* `if file_hash`: None (0 here) is skipped
Hashed(file_hash) == file_hash # 0

\* the walk loop from position k on; acc carries hash_dict and stderr
RECURSIVE ExactWalk(_, _)
ExactWalk(k, acc) ==
    IF k > Len(walk) THEN acc
    ELSE LET filepath == walk[k]
             h == compute_hash(filepath)
         IN IF h.raised
            THEN [acc EXCEPT !.raised = TRUE]
            ELSE ExactWalk(k + 1,
                   [raised |-> FALSE,
                    hash_dict |-> IF Hashed(h.hash)
                                  THEN DictAppend(acc.hash_dict, h.hash, filepath)
                                  ELSE acc.hash_dict,
                    err |-> acc.err \o h.err])

find_duplicates_exact ==
    LET w == ExactWalk(1, [raised |-> FALSE, hash_dict |-> <<>>, err |-> <<>>])
    IN [raised |-> w.raised,
        groups |-> IF w.raised THEN <<>> ELSE ValuesWithDuplicates(w.hash_dict),
        err |-> w.err]

\* --------------------------------------------- find_duplicates, fuzzy
ImageOutcomes ==
    [kind : {"image"}, hash : 0..MaxFingerprint]
        \cup [kind : {"undecodable", "other"}, hash : {0}]

\* filename.lower().endswith(image_extensions)
IsImageName(img, path) == img[path].kind # "other"

\* hashes[i] - hashes[j]: the number of differing bits (the bits left once
\* both values are 0 are all equal)
RECURSIVE HammingBits(_, _, _)
HammingBits(a, b, bits) ==
    IF bits = 0 \/ (a = 0 /\ b = 0) THEN 0
    ELSE (IF a % 2 # b % 2 THEN 1 ELSE 0)
            + HammingBits(a \div 2, b \div 2, bits - 1)

Hamming(a, b) == HammingBits(a, b, HashSize)

\* int((1 - similarity_threshold) * hash_size), the threshold in hundredths
SimilarityThresholds == {80, 98, 100}

max_distance_of(threshold, hash_size) ==
    ((100 - threshold) * hash_size) \div 100

\* the walk loop that collects image_paths, from position k on
RECURSIVE SelectPaths(_, _, _)
SelectPaths(w, img, k) ==
    IF k > Len(w) THEN <<>>
    ELSE IF IsImageName(img, w[k]) THEN <<w[k]>> \o SelectPaths(w, img, k + 1)
    ELSE SelectPaths(w, img, k + 1)

\* the hashing loop: valid_paths, hashes (as parallel sequences) and stderr
RECURSIVE HashImages(_, _, _, _)
HashImages(img, image_paths, k, acc) ==
    IF k > Len(image_paths) THEN acc
    ELSE LET path == image_paths[k] IN
         IF img[path].kind = "image"
         THEN HashImages(img, image_paths, k + 1,
                [acc EXCEPT !.hashes = Append(@, img[path].hash),
                            !.valid_paths = Append(@, path)])
         ELSE HashImages(img, image_paths, k + 1,
                [acc EXCEPT !.err = Append(@,
                    [msg |-> "Error processing image", path |-> path])])

\* find(i) with path compression: the new parent array and the root
RECURSIVE find(_, _)
find(parent, i) ==
    IF parent[i] # i
    THEN LET r == find(parent, parent[i])
         IN [parent |-> [r.parent EXCEPT ![i] = r.root], root |-> r.root]
    ELSE [parent |-> parent, root |-> i]

\* a union that links the elements instead of their roots
union_elements(parent, i, j) == [parent EXCEPT ![i] = j]

union(parent, i, j) ==
    LET fi == find(parent, i)
        fj == find(fi.parent, j)
    IN IF fi.root # fj.root
       THEN [fj.parent EXCEPT ![fi.root] = fj.root]
       ELSE fj.parent

\* for i in range(n): for j in range(i + 1, n): ... union(i, j)
RECURSIVE UnionPairs(_, _, _, _, _)
UnionPairs(parent, hashes, max_distance, i, j) ==
    LET n == Len(hashes) IN
    IF i >= n THEN parent
    ELSE IF j >= n THEN UnionPairs(parent, hashes, max_distance, i + 1, i + 2)
    ELSE LET dist == Hamming(hashes[i + 1], hashes[j + 1]) IN
         UnionPairs(IF dist <= max_distance THEN union(parent, i, j) ELSE parent,
                    hashes, max_distance, i, j + 1)

\* for i in range(n): groups[find(i)].append(valid_paths[i])
\* a grouping loop that runs from the last index down to the first
RECURSIVE FormGroups_backwards(_, _, _, _)
FormGroups_backwards(parent, valid_paths, i, groups) ==
    IF i >= Len(valid_paths) THEN groups
    ELSE LET last == Len(valid_paths) - 1 - i
             f == find(parent, last)
         IN FormGroups_backwards(f.parent, valid_paths, i + 1,
                    DictAppend(groups, f.root, valid_paths[last + 1]))

RECURSIVE FormGroups(_, _, _, _)
FormGroups(parent, valid_paths, i, groups) ==
    IF i >= Len(valid_paths) THEN groups
    ELSE LET f == find(parent, i) IN
         FormGroups(f.parent, valid_paths, i + 1,
                    DictAppend(groups, f.root, valid_paths[i + 1]))

\* a guard that never returns early
TooFew_never(n) == n < 0

\* `if len(image_paths) < 2` and `if n < 2`
TooFew(n) == n < 2

\* hashes[0] raises IndexError on an empty list
find_duplicates_fuzzy(w, img, threshold) ==
    LET image_paths == SelectPaths(w, img, 1)
        h == HashImages(img, image_paths, 1,
                        [hashes |-> <<>>, valid_paths |-> <<>>, err |-> <<>>])
        n == Len(h.hashes)
        max_distance == max_distance_of(threshold, HashSize)
        parent == UnionPairs([i \in 0..(n - 1) |-> i], h.hashes, max_distance, 0, 1)
    IN IF TooFew(Len(image_paths))
       THEN [raised |-> FALSE, groups |-> <<>>, err |-> <<>>]
       ELSE IF TooFew(n)
       THEN [raised |-> FALSE, groups |-> <<>>, err |-> h.err]
       ELSE IF n = 0
       THEN [raised |-> TRUE, groups |-> <<>>, err |-> h.err]
       ELSE [raised |-> FALSE,
             groups |-> ValuesWithDuplicates(FormGroups(parent, h.valid_paths, 0, <<>>)),
             err |-> h.err]

\* ---------------------------------------------------- delete_duplicates
\* what the user types at the prompt: some text, or the decimal numeral
\* of num
KeepTexts == {"skip", " Skip ", "abc", ""}

KeepInputs ==
    [numeral : {FALSE}, text : KeepTexts, num : {0}]
        \cup [numeral : {TRUE}, text : {""}, num : (-1)..(MaxFiles + 1)]

\* keep.strip().lower() on the texts above
StripLower(text) ==
    IF text \in {"skip", " Skip "} THEN "skip" ELSE text

IsSkip(keep) == ~keep.numeral /\ StripLower(keep.text) = "skip"

\* the number typed, taken as the 0-based index
keep_idx_same(keep) == keep.num

\* int(keep) - 1; int() raises ValueError on the texts above
keep_idx_of(keep) == keep.num - 1

\* a range test without the lower bound
InRange_upper(keep_idx, group) == keep_idx < Len(group)

\* 0 <= keep_idx < len(group)
InRange(keep_idx, group) == 0 <= keep_idx /\ keep_idx < Len(group)

Line(msg, arg) == [msg |-> msg, arg |-> arg]

\* an inner loop that removes whatever dry_run says
RECURSIVE RemoveLoop_always(_, _, _, _, _)
RemoveLoop_always(group, i, keep_idx, dry, acc) ==
    IF i >= Len(group) THEN acc
    ELSE LET path == group[i + 1] IN
         IF i = keep_idx THEN RemoveLoop_always(group, i + 1, keep_idx, dry, acc)
         ELSE IF path \notin acc.fs
         THEN [acc EXCEPT !.raised = TRUE]
         ELSE RemoveLoop_always(group, i + 1, keep_idx, dry,
                [acc EXCEPT !.fs = @ \ {path},
                            !.out = Append(@, Line("Deleted", path)),
                            !.deleted_count = @ + 1])

\* the inner loop `for i, path in enumerate(group)` from 0-based index i
RECURSIVE RemoveLoop(_, _, _, _, _)
RemoveLoop(group, i, keep_idx, dry, acc) ==
    IF i >= Len(group) THEN acc
    ELSE LET path == group[i + 1] IN
         IF i = keep_idx THEN RemoveLoop(group, i + 1, keep_idx, dry, acc)
         ELSE IF dry
         THEN RemoveLoop(group, i + 1, keep_idx, dry,
                [acc EXCEPT !.out = Append(@, Line("Would have deleted", path))])
         ELSE IF path \notin acc.fs
         THEN [acc EXCEPT !.raised = TRUE]
         ELSE RemoveLoop(group, i + 1, keep_idx, dry,
                [acc EXCEPT !.fs = @ \ {path},
                            !.out = Append(@, Line("Deleted", path)),
                            !.deleted_count = @ + 1])

\* one iteration of `for idx, group in enumerate(dupe_groups, 1)`
DeleteIteration(group, keep, dry, acc0) ==
    IF IsSkip(keep) THEN acc0
    ELSE IF ~keep.numeral
    THEN [acc0 EXCEPT !.out = Append(@, Line("Invalid input; skipping", 0))]
    ELSE IF InRange(keep_idx_of(keep), group)
    THEN RemoveLoop(group, 0, keep_idx_of(keep), dry, acc0)
    ELSE [acc0 EXCEPT !.out = Append(@, Line("Invalid choice; skipping", 0))]

\* ------------------------------------------------ threshold, histogram
thresholds == <<0, 5, 10, 15, 20, 25, 30>>

\* the key the for/else loop increments for one distance
RECURSIVE CountedUnder(_, _)
CountedUnder(dist, k) ==
    IF k > Len(thresholds) THEN 30
    ELSE IF dist <= thresholds[k] THEN thresholds[k]
    ELSE CountedUnder(dist, k + 1)

counts_of(ds) ==
    [t \in Range(thresholds) |->
        Cardinality({k \in 1..Len(ds) : CountedUnder(ds[k], 1) = t})]

\* the 8 echoed lines: one per threshold, then "> 30 bits"
reported_of(ds) ==
    LET counts == counts_of(ds) IN
    [k \in 1..(Len(thresholds) + 1) |->
        IF k <= Len(thresholds) THEN counts[thresholds[k]] ELSE counts[30]]

IsSorted(ds) == \A k \in 1..(Len(ds) - 1) : ds[k] <= ds[k + 1]

PairDistances ==
    {ds \in UNION {[1..m -> 0..HashSize] : m \in 1..MaxPairs} : IsSorted(ds)}

\* ------------------------------------------------------- state machine
\* os.walk found n files, numbered in discovery order
Walked(n) ==
    /\ cmd = "scan"
    /\ walk = [k \in 1..n |-> k]
    /\ fs = 1..n
    /\ distances = <<>>

InitExact ==
    \E n \in 0..MaxFiles :
        /\ Walked(n)
        /\ fuzzy_images = FALSE
        /\ similarity_threshold = 80
        /\ content \in [1..n -> ReadOutcomes]
        /\ image = [p \in 1..n |-> [kind |-> "other", hash |-> 0]]

InitFuzzy ==
    \E n \in 0..MaxFiles :
        /\ Walked(n)
        /\ fuzzy_images = TRUE
        /\ similarity_threshold \in SimilarityThresholds
        /\ image \in [1..n -> ImageOutcomes]
        /\ content = [p \in 1..n |-> [kind |-> "ok", digest |-> 1]]

InitThreshold ==
    /\ cmd = "threshold"
    /\ walk = <<>>
    /\ fs = {}
    /\ fuzzy_images = FALSE
    /\ similarity_threshold = 80
    /\ image = <<>>
    /\ content = <<>>
    /\ distances \in PairDistances

InitRest ==
    /\ pc = "start"
    /\ dupe_groups = <<>>
    /\ stderr = <<>>
    /\ stdout = <<>>
    /\ dry_run = FALSE
    /\ idx = 0
    /\ any_deleted = FALSE
    /\ keeps = <<>>
    /\ returned = "none"
    /\ reported = <<>>

Init == (InitExact \/ InitFuzzy \/ InitThreshold) /\ InitRest

\* scan: dupe_groups = find_duplicates(...)
Scanned(r) ==
    /\ pc' = IF r.raised THEN "scan_raised" ELSE "scanned"
    /\ dupe_groups' = r.groups
    /\ stderr' = stderr \o r.err
    /\ UNCHANGED <<cmd, walk, content, image, fuzzy_images, similarity_threshold, fs, stdout, dry_run,
                   idx, any_deleted, keeps, returned, distances, reported>>

FindDuplicatesExact ==
    /\ cmd = "scan" /\ pc = "start" /\ ~fuzzy_images
    /\ Scanned(find_duplicates_exact)

FindDuplicatesFuzzy ==
    /\ cmd = "scan" /\ pc = "start" /\ fuzzy_images
    /\ Scanned(find_duplicates_fuzzy(walk, image, similarity_threshold))

\* scan: `if not dupe_groups`
ScanNoDuplicates ==
    /\ pc = "scanned" /\ dupe_groups = <<>>
    /\ stdout' = Append(stdout, Line("No duplicates found", 0))
    /\ pc' = "exit"
    /\ UNCHANGED <<cmd, walk, content, image, fuzzy_images, similarity_threshold, fs, dupe_groups,
                   stderr, dry_run, idx, any_deleted, keeps, returned,
                   distances, reported>>

\* scan without --delete, or the confirmation declined
ScanNoDelete ==
    /\ pc = "scanned" /\ dupe_groups # <<>>
    /\ pc' = "exit"
    /\ UNCHANGED <<cmd, walk, content, image, fuzzy_images, similarity_threshold, fs, dupe_groups,
                   stderr, stdout, dry_run, idx, any_deleted, keeps, returned,
                   distances, reported>>

\* scan: delete_duplicates(dupe_groups, dry_run=dry_run) is entered
DeleteStart ==
    /\ pc = "scanned" /\ dupe_groups # <<>>
    /\ dry_run' \in BOOLEAN
    /\ pc' = "deleting"
    /\ idx' = 1
    /\ any_deleted' = FALSE
    /\ UNCHANGED <<cmd, walk, content, image, fuzzy_images, similarity_threshold, fs, dupe_groups,
                   stderr, stdout, keeps, returned, distances, reported>>

\* one group: its listing, the prompt, and the removals
DeleteGroup ==
    /\ pc = "deleting" /\ idx <= Len(dupe_groups)
    /\ \E keep \in KeepInputs :
         LET group == dupe_groups[idx]
             r == DeleteIteration(group, keep, dry_run,
                    [fs |-> fs,
                     out |-> Append(stdout, Line("Duplicates group", idx)),
                     deleted_count |-> 0,
                     raised |-> FALSE])
         IN /\ keeps' = Append(keeps, keep)
            /\ fs' = r.fs
            /\ stdout' = r.out
            /\ IF r.raised
               THEN pc' = "remove_raised" /\ UNCHANGED <<idx, any_deleted>>
               ELSE /\ pc' = pc
                    /\ idx' = idx + 1
                    /\ any_deleted' = (any_deleted \/ r.deleted_count > 0)
    /\ UNCHANGED <<cmd, walk, content, image, fuzzy_images, similarity_threshold, dupe_groups,
                   stderr, dry_run, returned, distances, reported>>

\* `return any_deleted`, and scan's closing line
DeleteReturn ==
    /\ pc = "deleting" /\ idx > Len(dupe_groups)
    /\ returned' = any_deleted
    /\ stdout' = Append(stdout,
                    Line(IF dry_run THEN "Dry run complete"
                         ELSE IF any_deleted THEN "Selected duplicates removed"
                         ELSE "No files deleted", 0))
    /\ pc' = "deleted"
    /\ UNCHANGED <<cmd, walk, content, image, fuzzy_images, similarity_threshold, fs, dupe_groups,
                   stderr, dry_run, idx, any_deleted, keeps, distances, reported>>

\* threshold --verbose: the cumulative distribution
ThresholdHistogram ==
    /\ cmd = "threshold" /\ pc = "start"
    /\ reported' = reported_of(distances)
    /\ pc' = "exit"
    /\ UNCHANGED <<cmd, walk, content, image, fuzzy_images, similarity_threshold, fs, dupe_groups,
                   stderr, stdout, dry_run, idx, any_deleted, keeps, returned,
                   distances>>

Next ==
    \/ FindDuplicatesExact
    \/ FindDuplicatesFuzzy
    \/ ScanNoDuplicates
    \/ ScanNoDelete
    \/ DeleteStart
    \/ DeleteGroup
    \/ DeleteReturn
    \/ ThresholdHistogram

Spec == Init /\ [][Next]_vars

\* the scan command without --delete, in both modes
NextScan ==
    \/ FindDuplicatesExact
    \/ FindDuplicatesFuzzy
    \/ ScanNoDuplicates
    \/ ScanNoDelete

InitScan == (InitExact \/ InitFuzzy) /\ InitRest

SpecScan == InitScan /\ [][NextScan]_vars

\* find_duplicates alone, in fuzzy mode
InitScanFuzzy == InitFuzzy /\ InitRest

SpecFuzzy == InitScanFuzzy /\ [][FindDuplicatesFuzzy]_vars

\* find_duplicates alone, in exact mode
InitScanExact == InitExact /\ InitRest

SpecExact == InitScanExact /\ [][FindDuplicatesExact]_vars

\* scan --delete on the groups of an exact-mode scan
NextDelete ==
    \/ FindDuplicatesExact
    \/ ScanNoDuplicates
    \/ DeleteStart
    \/ DeleteGroup
    \/ DeleteReturn

SpecDelete == InitScanExact /\ [][NextDelete]_vars

\* threshold --verbose
InitAdvisor == InitThreshold /\ InitRest

SpecThreshold == InitAdvisor /\ [][ThresholdHistogram]_vars

\* ------------------------------------------------------------ properties
\* find_duplicates has returned its groups to scan
ScanDone == cmd = "scan" /\ pc \notin {"start", "scan_raised"}

GroupSets == {Range(dupe_groups[g]) : g \in 1..Len(dupe_groups)}

InSomeGroup(p) == \E g \in 1..Len(dupe_groups) : p \in Range(dupe_groups[g])

SameGroup(p, q) ==
    \E g \in 1..Len(dupe_groups) : {p, q} \subseteq Range(dupe_groups[g])

ValidImages == {p \in Range(walk) : image[p].kind = "image"}

Close(p, q) ==
    Hamming(image[p].hash, image[q].hash)
        <= max_distance_of(similarity_threshold, HashSize)

\* the connected component of the graph on ValidImages with edges Close
RECURSIVE Grow(_)
Grow(S) ==
    LET T == S \cup {q \in ValidImages : \E p \in S : Close(p, q)}
    IN IF T = S THEN S ELSE Grow(T)

Component(p) == Grow({p})

Components == {Component(p) : p \in ValidImages}

\* C1: in fuzzy mode with at least 2 valid images, the returned groups are
\* exactly the connected components with at least 2 members of the graph
\* joining images whose Hamming distance is <= max_distance, each once
C1_FuzzyGroupsAreComponents ==
    (ScanDone /\ fuzzy_images /\ Cardinality(ValidImages) >= 2) =>
        /\ GroupSets = {c \in Components : Cardinality(c) >= 2}
        /\ Len(dupe_groups) = Cardinality(GroupSets)

\* a chain: two images of one group that are farther apart than max_distance
C1_Witness ==
    /\ ScanDone /\ fuzzy_images
    /\ \E p, q \in ValidImages : SameGroup(p, q) /\ ~Close(p, q)

HashedOk == {p \in Range(walk) : content[p].kind = "ok"}

\* C2: in exact mode two successfully hashed files share a group iff their
\* digests are equal; a file is in a group iff it was hashed and another
\* file has its digest, so unshared digests and failed files are in no group
C2_ExactGroupsAreDigestClasses ==
    (ScanDone /\ ~fuzzy_images) =>
        /\ \A p, q \in HashedOk :
             p # q => (SameGroup(p, q) <=> content[p].digest = content[q].digest)
        /\ \A p \in Range(walk) :
             InSomeGroup(p) <=>
                /\ p \in HashedOk
                /\ \E q \in HashedOk \ {p} : content[q].digest = content[p].digest

\* a group, a file with an unshared digest and a file whose hashing failed
C2_Witness ==
    /\ ScanDone /\ ~fuzzy_images
    /\ dupe_groups # <<>>
    /\ \E p \in HashedOk : ~InSomeGroup(p)
    /\ \E p \in Range(walk) : p \notin HashedOk

\* C3: in either mode every group has at least 2 members, holds no path
\* twice, shares no path with another group, and holds only walked paths
C3_GroupsWellFormed ==
    ScanDone =>
        /\ \A g \in 1..Len(dupe_groups) :
             /\ Len(dupe_groups[g]) >= 2
             /\ \A a, b \in 1..Len(dupe_groups[g]) :
                  a # b => dupe_groups[g][a] # dupe_groups[g][b]
             /\ Range(dupe_groups[g]) \subseteq Range(walk)
        /\ \A g, h \in 1..Len(dupe_groups) :
             g # h => Range(dupe_groups[g]) \cap Range(dupe_groups[h]) = {}

\* a scan that returns two groups
C3_Witness == ScanDone /\ Len(dupe_groups) = 2

\* fewer than 2 valid images
InsufficientData == Cardinality(ValidImages) < 2

\* the results find_duplicates returns for 2 valid images that are farther
\* apart than max_distance: "zero duplicates found"
ZeroDuplicatesResults ==
    {find_duplicates_fuzzy(<<1, 2>>, img, t).groups :
        <<img, t>> \in
            {x \in [1..2 -> [kind : {"image"}, hash : 0..MaxFingerprint]]
                        \X SimilarityThresholds :
                Hamming(x[1][1].hash, x[1][2].hash)
                    > max_distance_of(x[2], HashSize)}}

\* C9 as stated: with fewer than 2 valid images the result given to the
\* caller differs from the one given when nothing is a duplicate
C9_Original ==
    (ScanDone /\ fuzzy_images /\ InsufficientData) =>
        dupe_groups \notin ZeroDuplicatesResults

\* C9 amended: with fewer than 2 valid images find_duplicates raises
\* nothing and returns the empty list, the very result of "zero duplicates"
C9_InsufficientIsEmpty ==
    (cmd = "scan" /\ pc # "start" /\ fuzzy_images /\ InsufficientData) =>
        /\ pc # "scan_raised"
        /\ dupe_groups = <<>>
        /\ dupe_groups \in ZeroDuplicatesResults

\* at least 2 candidate files, none of which decodes
C9_Witness ==
    /\ ScanDone /\ fuzzy_images
    /\ ValidImages = {}
    /\ Cardinality({p \in Range(walk) : image[p].kind = "undecodable"}) >= 2

DiscoveryIndex(p) == CHOOSE k \in 1..Len(walk) : walk[k] = p

Lowest(group) ==
    CHOOSE m \in {DiscoveryIndex(p) : p \in Range(group)} :
        \A p \in Range(group) : m <= DiscoveryIndex(p)

Highest(group) ==
    CHOOSE m \in {DiscoveryIndex(p) : p \in Range(group)} :
        \A p \in Range(group) : m >= DiscoveryIndex(p)

\* C10: in fuzzy mode the paths of a group are in discovery order and the
\* groups are ordered by their lowest-discovery-index member
C10_FuzzyOrder ==
    (ScanDone /\ fuzzy_images) =>
        /\ \A g \in 1..Len(dupe_groups) :
             \A a, b \in 1..Len(dupe_groups[g]) :
                a < b => DiscoveryIndex(dupe_groups[g][a])
                            < DiscoveryIndex(dupe_groups[g][b])
        /\ \A g, h \in 1..Len(dupe_groups) :
             g < h => Lowest(dupe_groups[g]) < Lowest(dupe_groups[h])

\* two groups, the first of which ends with the larger representative
C10_Witness ==
    /\ ScanDone /\ fuzzy_images
    /\ Len(dupe_groups) = 2
    /\ Highest(dupe_groups[1]) > Highest(dupe_groups[2])

\* -------------------------------------------------- properties, deletion
Deleting == cmd = "scan" /\ pc \in {"deleting", "deleted"}

\* the input read for group g is a number in 1..len(group)
ValidKeep(g) ==
    /\ keeps[g].numeral
    /\ 1 <= keeps[g].num /\ keeps[g].num <= Len(dupe_groups[g])

SkipTyped(g) == ~keeps[g].numeral /\ keeps[g].text \in {"skip", " Skip "}

Kept(g) == dupe_groups[g][keeps[g].num]

Others(g) == Range(dupe_groups[g]) \ {Kept(g)}

Printed(msg, arg) ==
    Cardinality({k \in 1..Len(stdout) : stdout[k] = Line(msg, arg)})

\* the lines printed for group g after its listing
HeaderAt(g) == CHOOSE k \in 1..Len(stdout) : stdout[k] = Line("Duplicates group", g)

Closing == {"Duplicates group", "Dry run complete",
            "Selected duplicates removed", "No files deleted"}

RECURSIVE Upto(_)
Upto(k) ==
    IF k > Len(stdout) \/ stdout[k].msg \in Closing THEN <<>>
    ELSE <<stdout[k]>> \o Upto(k + 1)

Section(g) == Upto(HeaderAt(g) + 1)

\* C4: without dry-run, a number k in 1..len(group) removes exactly the
\* other members of the group, each reported once and in its group's
\* section, and never the k-th, which stays while later groups are handled
C4_KeepRemovesOthers ==
    /\ pc # "remove_raised"
    /\ (Deleting /\ ~dry_run) =>
         \A g \in 1..Len(keeps) :
            ValidKeep(g) =>
                /\ Range(dupe_groups[g]) \cap fs = {Kept(g)}
                /\ Range(Section(g)) = {Line("Deleted", p) : p \in Others(g)}
                /\ Len(Section(g)) = Cardinality(Others(g))
                /\ \A p \in Others(g) : Printed("Deleted", p) = 1
                /\ Printed("Deleted", Kept(g)) = 0

\* two groups handled, a member other than the first kept in one of them
C4_Witness ==
    /\ cmd = "scan" /\ pc = "deleted" /\ ~dry_run
    /\ Len(dupe_groups) = 2
    /\ ValidKeep(1) /\ ValidKeep(2)
    /\ keeps[1].num >= 2

InvalidReport(g) ==
    IF keeps[g].numeral
    THEN <<Line("Invalid choice; skipping", 0)>>
    ELSE <<Line("Invalid input; skipping", 0)>>

\* C5: 'skip', a non-number and a number outside 1..len(group) remove no
\* file of the group; the last two are reported as invalid; the loop goes on
\* to prompt for every later group and handles it by its own input
C5_InvalidLeavesGroup ==
    Deleting =>
        /\ Len(keeps) = IF pc = "deleted" THEN Len(dupe_groups) ELSE idx - 1
        /\ \A g \in 1..Len(keeps) :
             ~ValidKeep(g) =>
                /\ Range(dupe_groups[g]) \subseteq fs
                /\ Section(g) = IF SkipTyped(g) THEN <<>> ELSE InvalidReport(g)
                /\ \A h \in (g + 1)..Len(keeps) :
                     (ValidKeep(h) /\ ~dry_run) =>
                        Range(dupe_groups[h]) \cap fs = {Kept(h)}

\* an out-of-range number for the first group, a valid one for the second
C5_Witness ==
    /\ cmd = "scan" /\ pc = "deleted" /\ ~dry_run
    /\ Len(dupe_groups) = 2
    /\ keeps[1].numeral /\ keeps[1].num = 0
    /\ ValidKeep(2)

\* C6: under dry_run no file leaves the filesystem, each file that would
\* have been removed is reported once, and the function returns False
C6_DryRunTouchesNothing ==
    (Deleting /\ dry_run) =>
        /\ fs = Range(walk)
        /\ \A p \in Range(walk) : Printed("Deleted", p) = 0
        /\ \A g \in 1..Len(keeps) :
             ValidKeep(g) =>
                /\ Range(Section(g)) = {Line("Would have deleted", p) : p \in Others(g)}
                /\ Len(Section(g)) = Cardinality(Others(g))
                /\ Printed("Would have deleted", Kept(g)) = 0
        /\ pc = "deleted" =>
             /\ returned = FALSE
             /\ stdout[Len(stdout)] = Line("Dry run complete", 0)

\* a dry run that was given a valid number
C6_Witness ==
    /\ cmd = "scan" /\ pc = "deleted" /\ dry_run
    /\ \E g \in 1..Len(keeps) : ValidKeep(g)

\* ------------------------------------------------ properties, histogram
InBucket(d, k) ==
    /\ d <= thresholds[k]
    /\ k > 1 => d > thresholds[k - 1]

\* C7 as stated: the 8 reported counts count each pair once: each boundary
\* bucket the pairs not counted in a smaller one, the overflow bucket the
\* pairs above 30, all together the number of pairs
C7_HistogramPartitions ==
    (cmd = "threshold" /\ pc = "exit") =>
        /\ \A k \in 1..Len(thresholds) :
             reported[k] = Cardinality({j \in 1..Len(distances) :
                                            InBucket(distances[j], k)})
        /\ reported[Len(thresholds) + 1]
             = Cardinality({j \in 1..Len(distances) : distances[j] > 30})
        /\ SumSeq(reported) = Len(distances)

\* ------------------------------------------------- properties, failures
Failed == {p \in Range(walk) : content[p].kind # "ok"}

Logged(p) == \E k \in 1..Len(stderr) : stderr[k].path = p

\* C8 as stated: whatever error reading a file raises, the exact-mode scan
\* does not abort, logs the file on stderr, keeps it out of every group and
\* returns the groups of the other files
C8_ReadFailureIsLocal ==
    (cmd = "scan" /\ ~fuzzy_images /\ pc # "start") =>
        /\ pc # "scan_raised"
        /\ \A p \in Failed : Logged(p) /\ ~InSomeGroup(p)
        /\ \A p, q \in HashedOk :
             p # q => (SameGroup(p, q) <=> content[p].digest = content[q].digest)

====
